---- MODULE Spec2Model ----
(***************************************************************************)
(* A model of src/videocontext.js: the module-level frame scheduler        *)
(* (registerUpdateable / update) and the VideoContext orchestrator         *)
(* (currentTime setter, duration getter, play, pause, the node factories   *)
(* and the per-frame _update).                                             *)
(*                                                                         *)
(* Numbers.  A JavaScript number holding seconds is kept in fixed point:   *)
(* the integer n stands for n / FixedPoint seconds.  Host timestamps are   *)
(* integers in milliseconds.  NaN is a reserved value on which NumAdd and  *)
(* NumGt behave as IEEE arithmetic does.  Strings are sequences of         *)
(* one-character strings.                                                  *)
(*                                                                         *)
(* Collaborators.  VideoNode, EffectNode and DestinationNode are imported  *)
(* by the source file; a source node is modelled by its stop time and its  *)
(* readiness flag, and every call the orchestrator makes on a node is      *)
(* recorded in cmds, the commands issued by the last operation.            *)
(***************************************************************************)
EXTENDS Integers, Sequences, FiniteSets, TLC

VARIABLES
    updateables,    \* line 7: the registration list (context indices)
    previousTime,   \* line 8: <<>> while undefined, <<t>> once set
    rafPending,     \* a frame callback is scheduled (line 19)
    contexts,       \* the VideoContext objects, in construction order
    cmds,           \* the calls on nodes made by the last operation
    last            \* the last operation, its inputs and the state before

vars == <<updateables, previousTime, rafPending, contexts, cmds, last>>

-----------------------------------------------------------------------------
(* Bounds *)

MaxSources == 2
MaxEffects == 2
MaxContexts == 2
MaxTime == 3000
MaxRewind == 1000

(* Input sets *)

HostTimes == {0, 1000, 2000}
StopTimes == {1000, 2000}
SeekNumbers == {0, 2500}
SeekStrings ==
    { <<"2", ".", "5">>, <<" ", "1">>, <<"1", "x">>, <<"-", ".", "5">>,
      <<"x">>, <<>>, <<".">>, <<"-">> }

-----------------------------------------------------------------------------
(* Numbers *)

FixedPoint == 10 * 10 * 10

MsPerSecond == 1000

NaN == -999999999

NumAdd(a, b) == IF a = NaN \/ b = NaN THEN NaN ELSE a + b

NumGt(a, b) == a # NaN /\ b # NaN /\ a > b

Digits == {"0", "1", "2", "3", "4", "5", "6", "7", "8", "9"}

DigitVal ==
    ("0" :> 0) @@ ("1" :> 1) @@ ("2" :> 2) @@ ("3" :> 3) @@ ("4" :> 4) @@
    ("5" :> 5) @@ ("6" :> 6) @@ ("7" :> 7) @@ ("8" :> 8) @@ ("9" :> 9)

WhiteSpace == {" "}

RECURSIVE SkipWhite(_)
SkipWhite(s) ==
    IF s # <<>> /\ Head(s) \in WhiteSpace THEN SkipWhite(Tail(s)) ELSE s

RECURSIVE DigitRun(_)
DigitRun(s) ==
    IF s # <<>> /\ Head(s) \in Digits THEN <<Head(s)>> \o DigitRun(Tail(s))
    ELSE <<>>

RECURSIVE IntValue(_, _)
IntValue(ds, acc) ==
    IF ds = <<>> THEN acc ELSE IntValue(Tail(ds), 10 * acc + DigitVal[Head(ds)])

RECURSIVE Pow10(_)
Pow10(n) == IF n = 0 THEN 1 ELSE 10 * Pow10(n - 1)

Drop(s, n) == SubSeq(s, n + 1, Len(s))

parseFloat_IntegerPart(str) ==
    LET s0    == SkipWhite(str)
        neg   == s0 # <<>> /\ Head(s0) = "-"
        s1    == IF s0 # <<>> /\ Head(s0) \in {"-", "+"} THEN Tail(s0) ELSE s0
        ip    == DigitRun(s1)
        mag   == IntValue(ip, 0) * FixedPoint
    IN  IF ip = <<>> THEN NaN
        ELSE IF neg THEN 0 - mag ELSE mag

(* parseFloat: leading white space is skipped, then the longest prefix of   *)
(* the form [+-] digits [. digits] or [+-] . digits is converted; NaN when  *)
(* that prefix holds no digit.  Exponents and "Infinity" are outside the    *)
(* alphabet of the inputs.                                                  *)
parseFloat(str) ==
    LET s0    == SkipWhite(str)
        neg   == s0 # <<>> /\ Head(s0) = "-"
        s1    == IF s0 # <<>> /\ Head(s0) \in {"-", "+"} THEN Tail(s0) ELSE s0
        ip    == DigitRun(s1)
        s2    == Drop(s1, Len(ip))
        fp    == IF s2 # <<>> /\ Head(s2) = "." THEN DigitRun(Tail(s2))
                 ELSE <<>>
        mag   == IntValue(ip, 0) * FixedPoint
                 + (IntValue(fp, 0) * FixedPoint) \div Pow10(Len(fp))
    IN  IF ip = <<>> /\ fp = <<>> THEN NaN
        ELSE IF neg THEN 0 - mag ELSE mag

-----------------------------------------------------------------------------
(* Nodes *)

PlaybackState == {"playing", "paused", "stalled", "ended", "broken"}

Cmd(c, kind, idx, cmd, arg) ==
    [ctx |-> c, kind |-> kind, idx |-> idx, cmd |-> cmd, arg |-> arg]

VideoNode(stopTime, ready) == [stopTime |-> stopTime, ready |-> ready]

IsReady(sourceNode) == sourceNode.ready

(* the render graph of a context: whether its connections hold a cycle or  *)
(* miss a mandatory input                                                  *)
RenderGraph == [broken |-> FALSE]

(* constructor, lines 33-42 *)
NewVideoContext ==
    [renderGraph |-> RenderGraph, sourceNodes |-> <<>>, processingNodes |-> 0,
     currentTime |-> 0, state |-> "paused"]

-----------------------------------------------------------------------------
(* VideoContext *)

RECURSIVE Flatten(_)
Flatten(ss) == IF ss = <<>> THEN <<>> ELSE Head(ss) \o Flatten(Tail(ss))

Sources(ctx) == 1..Len(ctx.sourceNodes)

(* set currentTime, lines 78-89 *)
setCurrentTime(c, ctx, isStr, num, str) ==
    LET currentTime == IF isStr THEN parseFloat(str) ELSE num
    IN  [ctx |-> [ctx EXCEPT !.currentTime = currentTime],
         out |-> [i \in Sources(ctx) |->
                      Cmd(c, "source", i, "_seek", currentTime)]]

RECURSIVE MaxStopTime_KeepsLast(_, _, _)
MaxStopTime_KeepsLast(sourceNodes, i, maxTime) ==
    IF i > Len(sourceNodes) THEN maxTime
    ELSE MaxStopTime_KeepsLast(sourceNodes, i + 1, sourceNodes[i].stopTime)

RECURSIVE MaxStopTime(_, _, _)
MaxStopTime(sourceNodes, i, maxTime) ==
    IF i > Len(sourceNodes) THEN maxTime
    ELSE MaxStopTime(sourceNodes, i + 1,
                     IF NumGt(sourceNodes[i].stopTime, maxTime)
                     THEN sourceNodes[i].stopTime ELSE maxTime)

duration_FirstSource(ctx) ==
    IF ctx.sourceNodes = <<>> THEN 0 ELSE ctx.sourceNodes[1].stopTime

(* get duration, lines 111-119 *)
duration(ctx) == MaxStopTime(ctx.sourceNodes, 1, 0)

(* play, lines 125-132 *)
play(c, ctx) ==
    [ctx |-> [ctx EXCEPT !.state = "playing"],
     out |-> [i \in Sources(ctx) |-> Cmd(c, "source", i, "_play", 0)]]

pause_Toggle(c, ctx) ==
    [ctx |-> [ctx EXCEPT !.state = IF @ = "paused" THEN "playing"
                                   ELSE "paused"],
     out |-> [i \in Sources(ctx) |-> Cmd(c, "source", i, "_pause", 0)]]

(* pause, lines 134-141 *)
pause(c, ctx) ==
    [ctx |-> [ctx EXCEPT !.state = "paused"],
     out |-> [i \in Sources(ctx) |-> Cmd(c, "source", i, "_pause", 0)]]

(* createVideoSourceNode, lines 143-147 *)
createVideoSourceNode(ctx, stopTime, ready) ==
    [ctx EXCEPT !.sourceNodes = Append(@, VideoNode(stopTime, ready))]

(* createEffectNode, lines 149-153 *)
createEffectNode(ctx) ==
    [ctx EXCEPT !.processingNodes = @ + 1]

isStalled_LastOnly(ctx) ==
    ctx.sourceNodes # <<>>
    /\ ~IsReady(ctx.sourceNodes[Len(ctx.sourceNodes)])

(* _isStalled, lines 155-163 *)
isStalled(ctx) ==
    \E i \in Sources(ctx) : ~IsReady(ctx.sourceNodes[i])

Reconcile_StaysStalled(ctx) ==
    IF ctx.state = "playing"
    THEN [ctx EXCEPT !.state = IF isStalled(ctx) THEN "stalled" ELSE "playing"]
    ELSE ctx

Reconcile_IgnoringPaused(ctx) ==
    [ctx EXCEPT !.state = IF isStalled(ctx) THEN "stalled" ELSE "playing"]

(* _update, lines 169-175: the state inferred from the sources' readiness *)
Reconcile(ctx) ==
    IF ctx.state # "paused"
    THEN [ctx EXCEPT !.state = IF isStalled(ctx) THEN "stalled" ELSE "playing"]
    ELSE ctx

Advance_InAnyState(ctx, dt) ==
    LET t == NumAdd(ctx.currentTime, dt)
    IN  [ctx EXCEPT !.currentTime = t,
                    !.state = IF ctx.state = "playing" /\ NumGt(t, duration(ctx))
                              THEN "ended" ELSE ctx.state]

Advance_EndsAtDuration(ctx, dt) ==
    IF ctx.state = "playing"
    THEN LET t == NumAdd(ctx.currentTime, dt)
         IN  [ctx EXCEPT !.currentTime = t,
                         !.state = IF ~NumGt(duration(ctx), t) THEN "ended"
                                   ELSE "playing"]
    ELSE ctx

(* _update, lines 178-181: the time advance and the end of the timeline *)
Advance(ctx, dt) ==
    IF ctx.state = "playing"
    THEN LET t == NumAdd(ctx.currentTime, dt)
         IN  [ctx EXCEPT !.currentTime = t,
                         !.state = IF NumGt(t, duration(ctx)) THEN "ended"
                                   ELSE "playing"]
    ELSE ctx

SourceDispatch_PausesAllWhenStalled(c, ctx, i) ==
    <<Cmd(c, "source", i, "_update", ctx.currentTime)>>
    \o (IF ctx.state \in {"stalled", "paused"}
        THEN <<Cmd(c, "source", i, "_pause", 0)>> ELSE <<>>)
    \o (IF ctx.state = "playing"
        THEN <<Cmd(c, "source", i, "_play", 0)>> ELSE <<>>)

SourceDispatch_CommandFirst(c, ctx, i) ==
    (IF ctx.state = "stalled" /\ IsReady(ctx.sourceNodes[i])
     THEN <<Cmd(c, "source", i, "_pause", 0)>> ELSE <<>>)
    \o (IF ctx.state = "paused"
        THEN <<Cmd(c, "source", i, "_pause", 0)>> ELSE <<>>)
    \o (IF ctx.state = "playing"
        THEN <<Cmd(c, "source", i, "_play", 0)>> ELSE <<>>)
    \o <<Cmd(c, "source", i, "_update", ctx.currentTime)>>

(* _update, lines 185-196: the body of the loop for source node i *)
SourceDispatch(c, ctx, i) ==
    <<Cmd(c, "source", i, "_update", ctx.currentTime)>>
    \o (IF ctx.state = "stalled" /\ IsReady(ctx.sourceNodes[i])
        THEN <<Cmd(c, "source", i, "_pause", 0)>> ELSE <<>>)
    \o (IF ctx.state = "paused"
        THEN <<Cmd(c, "source", i, "_pause", 0)>> ELSE <<>>)
    \o (IF ctx.state = "playing"
        THEN <<Cmd(c, "source", i, "_play", 0)>> ELSE <<>>)

RenderPass_DestinationLast(c, ctx) ==
    [k \in 1..ctx.processingNodes |-> Cmd(c, "processing", k, "_render", 0)]
    \o <<Cmd(c, "destination", 0, "_render", 0)>>

(* _update, lines 199-202 *)
RenderPass(c, ctx) ==
    <<Cmd(c, "destination", 0, "_render", 0)>>
    \o [k \in 1..ctx.processingNodes |->
            Cmd(c, "processing", k, "_render", 0)]

ctxUpdate_RendersInEveryState(c, ctx, dt) ==
    IF ctx.state \in {"playing", "stalled", "paused"}
    THEN LET ctx2 == Advance(Reconcile(ctx), dt)
         IN  [ctx |-> ctx2,
              out |-> Flatten([i \in Sources(ctx2) |->
                                   SourceDispatch(c, ctx2, i)])
                      \o RenderPass(c, ctx2)]
    ELSE [ctx |-> ctx, out |-> RenderPass(c, ctx)]

ctxUpdate_ReconcilesWhenEnded(c, ctx, dt) ==
    LET ctx2 == Advance(Reconcile(ctx), dt)
    IN  IF ctx.state \in {"playing", "stalled", "paused"}
        THEN [ctx |-> ctx2,
              out |-> Flatten([i \in Sources(ctx2) |->
                                   SourceDispatch(c, ctx2, i)])
                      \o RenderPass(c, ctx2)]
        ELSE [ctx |-> ctx2, out |-> <<>>]

(* _update, lines 165-204 *)
ctxUpdate(c, ctx, dt) ==
    IF ctx.state \in {"playing", "stalled", "paused"}
    THEN LET ctx2 == Advance(Reconcile(ctx), dt)
         IN  [ctx |-> ctx2,
              out |-> Flatten([i \in Sources(ctx2) |->
                                   SourceDispatch(c, ctx2, i)])
                      \o RenderPass(c, ctx2)]
    ELSE [ctx |-> ctx, out |-> <<>>]

-----------------------------------------------------------------------------
(* Scheduler, lines 7-21 *)

Undefined == <<>>

(* lines 13-14 *)
FrameDt(prev, time) ==
    LET p == IF prev = Undefined THEN time ELSE prev[1]
    IN  ((time - p) * FixedPoint) \div MsPerSecond

RECURSIVE RunUpdateables_StopsAfterOne(_, _, _, _)
RunUpdateables_StopsAfterOne(us, i, ctxs, dt) ==
    IF i > Len(us) \/ i > 1 THEN [ctxs |-> ctxs, out |-> <<>>]
    ELSE LET c    == us[i]
             r    == ctxUpdate(c, ctxs[c], dt)
             rest == RunUpdateables_StopsAfterOne(
                         us, i + 1, [ctxs EXCEPT ![c] = r.ctx], dt)
         IN  [ctxs |-> rest.ctxs,
              out  |-> <<Cmd(c, "context", 0, "_update", dt)>> \o r.out
                       \o rest.out]

(* lines 15-17: updateables[i]._update(dt) for i = from .. length-1; the   *)
(* call itself is recorded ahead of the commands it issues.                *)
RECURSIVE RunUpdateables(_, _, _, _)
RunUpdateables(us, i, ctxs, dt) ==
    IF i > Len(us) THEN [ctxs |-> ctxs, out |-> <<>>]
    ELSE LET c    == us[i]
             r    == ctxUpdate(c, ctxs[c], dt)
             rest == RunUpdateables(us, i + 1, [ctxs EXCEPT ![c] = r.ctx], dt)
         IN  [ctxs |-> rest.ctxs,
              out  |-> <<Cmd(c, "context", 0, "_update", dt)>> \o r.out
                       \o rest.out]

(* lines 15-17 when the update of the f-th updateable raises an error at   *)
(* its k-th call on a node: the updateables before it have been updated,   *)
(* its own assignments (lines 169-181) and its first k calls have taken    *)
(* place, and nothing in update catches the error.                         *)
RunUpdateablesThrowing(us, ctxs, dt, f, k) ==
    LET before == RunUpdateables(SubSeq(us, 1, f - 1), 1, ctxs, dt)
        c      == us[f]
        r      == ctxUpdate(c, before.ctxs[c], dt)
    IN  [ctxs |-> [before.ctxs EXCEPT ![c] = r.ctx],
         out  |-> before.out \o <<Cmd(c, "context", 0, "_update", dt)>>
                  \o SubSeq(r.out, 1, k)]

-----------------------------------------------------------------------------
(* Operations *)

Op(op, c, isStr, num, str) ==
    [op |-> op, ctx |-> c, isStr |-> isStr, num |-> num, str |-> str,
     pre |-> contexts, prevTime |-> previousTime]

TimeInRange(t) == t = NaN \/ (0 - MaxRewind <= t /\ t <= MaxTime)

(* new VideoContext(canvas), lines 33-76, with registerUpdateable, 9-11 *)
Construct ==
    /\ Len(contexts) < MaxContexts
    /\ contexts' = Append(contexts, NewVideoContext)
    /\ updateables' = Append(updateables, Len(contexts) + 1)
    /\ cmds' = <<>>
    /\ last' = Op("new", Len(contexts) + 1, FALSE, 0, <<>>)
    /\ UNCHANGED <<previousTime, rafPending>>

(* the host runs the frame callback: update(time), lines 12-20 *)
Frame(time) ==
    /\ rafPending
    /\ LET dt == FrameDt(previousTime, time)
           r  == RunUpdateables(updateables, 1, contexts, dt)
       IN  /\ \A c \in 1..Len(contexts) : TimeInRange(r.ctxs[c].currentTime)
           /\ contexts' = r.ctxs
           /\ cmds' = r.out
           /\ last' = Op("frame", 0, FALSE, dt, <<>>)
    /\ previousTime' = <<time>>
    /\ rafPending' = TRUE
    /\ UNCHANGED updateables

(* update(time) when a node called by the f-th updateable raises an error: *)
(* the error leaves update before lines 18 and 19                          *)
FrameThrows(time, f, k) ==
    /\ rafPending
    /\ f \in 1..Len(updateables)
    /\ LET dt == FrameDt(previousTime, time)
           r  == RunUpdateablesThrowing(updateables, contexts, dt, f, k)
       IN  /\ k \in 1..Len(ctxUpdate(updateables[f],
                                     contexts[updateables[f]], dt).out)
           /\ \A c \in 1..Len(contexts) : TimeInRange(r.ctxs[c].currentTime)
           /\ contexts' = r.ctxs
           /\ cmds' = r.out
           /\ last' = Op("frameThrows", updateables[f], FALSE, dt, <<>>)
    /\ rafPending' = FALSE
    /\ UNCHANGED <<updateables, previousTime>>

SeekNumber(c, t) ==
    /\ LET r == setCurrentTime(c, contexts[c], FALSE, t, <<>>)
       IN  /\ contexts' = [contexts EXCEPT ![c] = r.ctx]
           /\ cmds' = r.out
    /\ last' = Op("seek", c, FALSE, t, <<>>)
    /\ UNCHANGED <<updateables, previousTime, rafPending>>

SeekString(c, s) ==
    /\ LET r == setCurrentTime(c, contexts[c], TRUE, 0, s)
       IN  /\ contexts' = [contexts EXCEPT ![c] = r.ctx]
           /\ cmds' = r.out
    /\ last' = Op("seek", c, TRUE, 0, s)
    /\ UNCHANGED <<updateables, previousTime, rafPending>>

DoPlay(c) ==
    /\ LET r == play(c, contexts[c])
       IN  /\ contexts' = [contexts EXCEPT ![c] = r.ctx]
           /\ cmds' = r.out
    /\ last' = Op("play", c, FALSE, 0, <<>>)
    /\ UNCHANGED <<updateables, previousTime, rafPending>>

DoPause(c) ==
    /\ LET r == pause(c, contexts[c])
       IN  /\ contexts' = [contexts EXCEPT ![c] = r.ctx]
           /\ cmds' = r.out
    /\ last' = Op("pause", c, FALSE, 0, <<>>)
    /\ UNCHANGED <<updateables, previousTime, rafPending>>

CreateSource(c, stopTime, ready) ==
    /\ Len(contexts[c].sourceNodes) < MaxSources
    /\ contexts' = [contexts EXCEPT
                        ![c] = createVideoSourceNode(@, stopTime, ready)]
    /\ cmds' = <<>>
    /\ last' = Op("createVideoSourceNode", c, FALSE, stopTime, <<>>)
    /\ UNCHANGED <<updateables, previousTime, rafPending>>

CreateEffect(c) ==
    /\ contexts[c].processingNodes < MaxEffects
    /\ contexts' = [contexts EXCEPT ![c] = createEffectNode(@)]
    /\ cmds' = <<>>
    /\ last' = Op("createEffectNode", c, FALSE, 0, <<>>)
    /\ UNCHANGED <<updateables, previousTime, rafPending>>

(* the media backend of source node i changes its readiness between frames *)
ReadyChange(c, i) ==
    /\ i \in Sources(contexts[c])
    /\ contexts' = [contexts EXCEPT ![c].sourceNodes[i].ready = ~@]
    /\ cmds' = <<>>
    /\ last' = Op("ready", c, FALSE, i, <<>>)
    /\ UNCHANGED <<updateables, previousTime, rafPending>>

(* a connect or disconnect on the render graph of context c that makes it  *)
(* structurally broken, or repairs it                                      *)
GraphChange(c, broken) ==
    /\ contexts[c].renderGraph.broken # broken
    /\ contexts' = [contexts EXCEPT ![c].renderGraph.broken = broken]
    /\ cmds' = <<>>
    /\ last' = Op("graph", c, FALSE, 0, <<>>)
    /\ UNCHANGED <<updateables, previousTime, rafPending>>

-----------------------------------------------------------------------------
(* One page with one VideoContext: the state after the module is loaded     *)
(* (update() has run once, with no updateable, and has scheduled itself)    *)
(* and new VideoContext(canvas) has returned.                               *)

Init ==
    /\ updateables = <<1>>
    /\ previousTime = Undefined
    /\ rafPending = TRUE
    /\ contexts = <<NewVideoContext>>
    /\ cmds = <<>>
    /\ last = [op |-> "new", ctx |-> 1, isStr |-> FALSE, num |-> 0,
               str |-> <<>>, pre |-> <<>>, prevTime |-> Undefined]

Next ==
    \/ \E time \in HostTimes : Frame(time)
    \/ \E t \in SeekNumbers : SeekNumber(1, t)
    \/ \E s \in SeekStrings : SeekString(1, s)
    \/ DoPlay(1)
    \/ DoPause(1)
    \/ \E st \in StopTimes, rdy \in BOOLEAN : CreateSource(1, st, rdy)
    \/ CreateEffect(1)
    \/ \E i \in 1..MaxSources : ReadyChange(1, i)

Spec == Init /\ [][Next]_vars

-----------------------------------------------------------------------------
(* The scheduler with several VideoContext instances, constructed at any   *)
(* time between frames; the state after the module is loaded.              *)

SchedInit ==
    /\ updateables = <<>>
    /\ previousTime = Undefined
    /\ rafPending = TRUE
    /\ contexts = <<>>
    /\ cmds = <<>>
    /\ last = [op |-> "load", ctx |-> 0, isStr |-> FALSE, num |-> 0,
               str |-> <<>>, pre |-> <<>>, prevTime |-> Undefined]

SchedNext ==
    \/ Construct
    \/ \E time \in HostTimes : Frame(time)
    \/ \E c \in 1..Len(contexts) : DoPlay(c)
    \/ \E c \in 1..Len(contexts) : DoPause(c)

SchedSpec == SchedInit /\ [][SchedNext]_vars

-----------------------------------------------------------------------------
(* Uninterrupted playback: a context with a fixed, non-empty list of       *)
(* sources that are always ready, paused at currentTime 0 after a first    *)
(* frame at host time 0; play() is called once and the host then delivers  *)
(* frames a constant dt > 0 apart.  requestAnimationFrame (line 19) runs   *)
(* the callback again as long as host time lasts.                          *)

ScenarioDts == {300, 500, 700}

ScenarioSources ==
    UNION { [1..n -> {VideoNode(st, TRUE) : st \in StopTimes}]
            : n \in 1..MaxSources }

ScenarioInit ==
    /\ updateables = <<1>>
    /\ previousTime = <<0>>
    /\ rafPending = TRUE
    /\ \E ss \in ScenarioSources :
           contexts = <<[NewVideoContext EXCEPT !.sourceNodes = ss]>>
    /\ cmds = <<>>
    /\ last = [op |-> "new", ctx |-> 1, isStr |-> FALSE, num |-> 0,
               str |-> <<>>, pre |-> <<>>, prevTime |-> Undefined]

ScenarioPlay == last.op = "new" /\ DoPlay(1)

ScenarioFrame ==
    \E dt \in ScenarioDts :
        /\ last.op \in {"play", "frame"}
        /\ last.op = "frame" => dt = last.num
        /\ previousTime[1] + dt <= MaxTime
        /\ Frame(previousTime[1] + dt)

ScenarioNext == ScenarioPlay \/ ScenarioFrame

ScenarioSpec ==
    ScenarioInit /\ [][ScenarioNext]_vars /\ WF_vars(ScenarioNext)

-----------------------------------------------------------------------------
(* The scheduler when a node called during a frame raises an error.        *)

FaultNext ==
    \/ Construct
    \/ \E time \in HostTimes : Frame(time)
    \/ \E time \in HostTimes, f \in 1..MaxContexts, k \in 1..(MaxEffects + 1) :
          FrameThrows(time, f, k)
    \/ \E c \in 1..Len(contexts) : DoPlay(c)
    \/ \E c \in 1..Len(contexts) : DoPause(c)
    \/ \E c \in 1..Len(contexts) : CreateEffect(c)

FaultSpec == SchedInit /\ [][FaultNext]_vars

-----------------------------------------------------------------------------
(* One context whose render graph is rewired between frames.               *)

GraphNext ==
    \/ \E time \in HostTimes : Frame(time)
    \/ \E t \in SeekNumbers : SeekNumber(1, t)
    \/ DoPlay(1)
    \/ DoPause(1)
    \/ \E st \in StopTimes, rdy \in BOOLEAN : CreateSource(1, st, rdy)
    \/ \E b \in BOOLEAN : GraphChange(1, b)

GraphSpec == Init /\ [][GraphNext]_vars

-----------------------------------------------------------------------------
(* Reading the history: the tick of context c in the last frame *)

Ticked(c) == last.op = "frame" /\ c \in 1..Len(last.pre)

Before(c) == last.pre[c]

After(c) == contexts[c]

Count(c, i, name) ==
    Cardinality({k \in 1..Len(cmds) :
                    /\ cmds[k].ctx = c /\ cmds[k].kind = "source"
                    /\ cmds[k].idx = i /\ cmds[k].cmd = name})

SomeNotReady(ctx) == \E i \in Sources(ctx) : ~ctx.sourceNodes[i].ready

AllReady(ctx) == \A i \in Sources(ctx) : ctx.sourceNodes[i].ready

-----------------------------------------------------------------------------
(* C1: a tick with dt >= 0 that starts in state paused leaves currentTime  *)
(* and the state as they were, and every registered source receives        *)
(* exactly one pause command and no play command in that tick, whatever    *)
(* the sources' readiness.                                                 *)
C1_PausedTick ==
    \A c \in 1..Len(contexts) :
        (Ticked(c) /\ last.num >= 0 /\ Before(c).state = "paused")
        => /\ After(c).currentTime = Before(c).currentTime
           /\ After(c).state = "paused"
           /\ \A i \in Sources(After(c)) :
                 Count(c, i, "_pause") = 1 /\ Count(c, i, "_play") = 0

C1_Witness ==
    /\ Ticked(1) /\ last.num > 0 /\ Before(1).state = "paused"
    /\ Len(contexts[1].sourceNodes) = 2
    /\ contexts[1].sourceNodes[1].ready /\ ~contexts[1].sourceNodes[2].ready
    /\ Count(1, 1, "_pause") = 1 /\ Count(1, 2, "_pause") = 1

(* C2, as stated: a tick that starts in any state other than paused with a *)
(* source that is not ready ends in state stalled, every ready source      *)
(* having received a pause command.                                        *)
C2_NotPausedStalls ==
    \A c \in 1..Len(contexts) :
        (Ticked(c) /\ Before(c).state # "paused" /\ SomeNotReady(Before(c)))
        => /\ After(c).state = "stalled"
           /\ \A i \in Sources(After(c)) :
                 After(c).sourceNodes[i].ready => Count(c, i, "_pause") = 1

(* C2, amended: a tick that starts in state playing or stalled with a      *)
(* source that is not ready ends in state stalled, and every source that   *)
(* is ready has received exactly one pause command in that tick.           *)
C2_PlayingOrStalledStalls ==
    \A c \in 1..Len(contexts) :
        (/\ Ticked(c) /\ Before(c).state \in {"playing", "stalled"}
         /\ SomeNotReady(Before(c)))
        => /\ After(c).state = "stalled"
           /\ \A i \in Sources(After(c)) :
                 After(c).sourceNodes[i].ready => Count(c, i, "_pause") = 1

C2_Witness ==
    /\ Ticked(1) /\ Before(1).state = "playing"
    /\ Len(contexts[1].sourceNodes) = 2
    /\ contexts[1].sourceNodes[2].ready /\ ~contexts[1].sourceNodes[1].ready
    /\ contexts[1].state = "stalled"
    /\ Count(1, 2, "_pause") = 1

(* C3: with every source ready, a tick with dt >= 0 that starts in state   *)
(* playing advances currentTime by exactly dt; the state is then ended if  *)
(* the new currentTime is strictly greater than the duration, and          *)
(* otherwise playing with one play command sent to every source.  (NaN     *)
(* plus dt is NaN, which is not greater than any duration.)                *)
C3_PlayingTick ==
    \A c \in 1..Len(contexts) :
        (/\ Ticked(c) /\ last.num >= 0 /\ Before(c).state = "playing"
         /\ AllReady(Before(c)))
        => LET t0 == Before(c).currentTime
               t1 == After(c).currentTime
               d  == duration(After(c))
           IN  /\ t1 = IF t0 = NaN THEN NaN ELSE t0 + last.num
               /\ IF t1 # NaN /\ t1 > d
                  THEN After(c).state = "ended"
                  ELSE /\ After(c).state = "playing"
                       /\ \A i \in Sources(After(c)) :
                             /\ Count(c, i, "_play") = 1
                             /\ Count(c, i, "_pause") = 0

C3_Witness ==
    /\ Ticked(1) /\ last.num > 0 /\ Before(1).state = "playing"
    /\ Len(contexts[1].sourceNodes) > 0 /\ AllReady(contexts[1])
    /\ contexts[1].currentTime = duration(contexts[1])
    /\ contexts[1].state = "playing"

-----------------------------------------------------------------------------
(* C5: in every reachable state the duration is the largest stop time of   *)
(* the registered source nodes, 0 without sources; creating a source with  *)
(* a stop time above the duration raises the duration to that stop time,   *)
(* creating one with a smaller or equal stop time leaves it as it was, and *)
(* play, pause, a seek and a tick leave it as it was.                      *)
LargestStopTime(ctx) ==
    LET S == {ctx.sourceNodes[i].stopTime : i \in Sources(ctx)}
    IN  IF S = {} THEN 0 ELSE CHOOSE m \in S : \A x \in S : x <= m

C5_Duration ==
    \A c \in 1..Len(contexts) :
        /\ duration(contexts[c]) = LargestStopTime(contexts[c])
        /\ (c \in 1..Len(last.pre) /\ last.ctx \in {0, c})
           => LET d0 == duration(Before(c))
                  d1 == duration(After(c))
              IN  /\ (last.op = "createVideoSourceNode" /\ last.num > d0)
                     => (d1 = last.num /\ d1 > d0)
                  /\ (last.op = "createVideoSourceNode" /\ last.num <= d0)
                     => d1 = d0
                  /\ last.op \in {"play", "pause", "seek", "frame"}
                     => d1 = d0

C5_Witness ==
    /\ last.op = "createVideoSourceNode" /\ last.ctx = 1
    /\ Len(Before(1).sourceNodes) = 1
    /\ last.num > duration(Before(1))
    /\ duration(contexts[1]) = last.num
    /\ contexts[1].sourceNodes[1].stopTime < contexts[1].sourceNodes[2].stopTime

(* C6: setting currentTime to a numeric string that denotes the number t   *)
(* does what setting it to t does: currentTime becomes t, every source     *)
(* receives exactly one seek(t), and the playback state stays as it was.   *)
Denotes ==
    (<<"2", ".", "5">> :> 2500) @@ (<<" ", "1">> :> 1000)
    @@ (<<"-", ".", "5">> :> (0 - 500))

Seeks(c, ctx, t) == [i \in Sources(ctx) |-> Cmd(c, "source", i, "_seek", t)]

C6_NumericString ==
    \A c \in 1..Len(contexts) :
        (/\ last.op = "seek" /\ last.ctx = c /\ last.isStr
         /\ last.str \in DOMAIN Denotes)
        => LET t == Denotes[last.str]
           IN  /\ After(c).currentTime = t
               /\ cmds = Seeks(c, After(c), t)
               /\ After(c).state = Before(c).state
               /\ After(c) = [Before(c) EXCEPT !.currentTime = t]
               /\ After(c) = setCurrentTime(c, Before(c), FALSE, t, <<>>).ctx
               /\ cmds = setCurrentTime(c, Before(c), FALSE, t, <<>>).out

C6_Witness ==
    /\ last.op = "seek" /\ last.ctx = 1 /\ last.isStr
    /\ last.str = <<"2", ".", "5">>
    /\ Len(contexts[1].sourceNodes) = 2
    /\ contexts[1].state = "playing"
    /\ Before(1).currentTime # 2500
    /\ contexts[1].currentTime = 2500

(* C7: setting currentTime to a string that does not convert to a number   *)
(* has no effect: currentTime keeps its value and no source receives a     *)
(* seek command.                                                           *)
NonNumeric == { <<"x">>, <<".">>, <<"-">> }

C7_InvalidSeekHasNoEffect ==
    \A c \in 1..Len(contexts) :
        (/\ last.op = "seek" /\ last.ctx = c /\ last.isStr
         /\ last.str \in NonNumeric)
        => /\ After(c) = Before(c)
           /\ cmds = <<>>

(* C8: play and pause never change currentTime; play leaves the state      *)
(* playing and pause leaves it paused, whatever the state before; a second *)
(* play after play, or pause after pause, changes neither the state nor    *)
(* currentTime; play then pause from paused gives paused with currentTime  *)
(* as it was.                                                              *)
StateAndTime(ctx) == <<ctx.state, ctx.currentTime>>

C8_PlayPause ==
    \A c \in 1..Len(contexts) :
        /\ (last.op = "play" /\ last.ctx = c)
           => /\ After(c).state = "playing"
              /\ After(c).currentTime = Before(c).currentTime
              /\ StateAndTime(play(c, After(c)).ctx) = StateAndTime(After(c))
        /\ (last.op = "pause" /\ last.ctx = c)
           => /\ After(c).state = "paused"
              /\ After(c).currentTime = Before(c).currentTime
              /\ StateAndTime(pause(c, After(c)).ctx) = StateAndTime(After(c))
        /\ contexts[c].state = "paused"
           => StateAndTime(pause(c, play(c, contexts[c]).ctx).ctx)
              = StateAndTime(contexts[c])

C8_Witness ==
    /\ last.op = "pause" /\ last.ctx = 1
    /\ Before(1).state = "playing"
    /\ contexts[1].state = "paused"
    /\ contexts[1].currentTime = 1000
    /\ Len(contexts[1].sourceNodes) > 0

-----------------------------------------------------------------------------
(* C4: in uninterrupted playback from currentTime 0 the state is playing   *)
(* after every tick whose accumulated time is at most the duration, ended  *)
(* from the first tick whose accumulated time exceeds it, the state ended  *)
(* is eventually reached, and the duration is the largest stop time        *)
(* throughout.                                                             *)
C4_AfterTick ==
    LET ctx == contexts[1]
        acc == previousTime[1]
        d   == LargestStopTime(ctx)
    IN  /\ duration(ctx) = d
        /\ last.op = "new" => ctx.state = "paused" /\ ctx.currentTime = 0
        /\ last.op = "play" => ctx.state = "playing" /\ ctx.currentTime = 0
        /\ (last.op = "frame" /\ acc <= d)
           => ctx.state = "playing" /\ ctx.currentTime = acc
        /\ (last.op = "frame" /\ acc > d)
           => /\ ctx.state = "ended"
              /\ ctx.currentTime = last.num * ((d \div last.num) + 1)

C4_Playback == [](C4_AfterTick) /\ <>(contexts[1].state = "ended")

C4_Witness ==
    /\ last.op = "frame" /\ last.num = 500
    /\ Before(1).state = "playing" /\ contexts[1].state = "ended"
    /\ Len(contexts[1].sourceNodes) = 2
    /\ contexts[1].sourceNodes[1].stopTime = 1000
    /\ contexts[1].sourceNodes[2].stopTime = 2000
    /\ previousTime = <<2500>> /\ contexts[1].currentTime = 2500
    /\ duration(contexts[1]) = 2000

(* C9: a frame callback calls _update on every registered updateable       *)
(* exactly once, in registration order, all with the same dt, and the      *)
(* commands of one context's update all precede the next context's update; *)
(* every VideoContext constructed so far is registered.                    *)
UpdateCalls == SelectSeq(cmds, LAMBDA e : e.kind = "context")

CallBefore(k) ==
    CHOOSE j \in 1..k :
        /\ cmds[j].kind = "context"
        /\ \A m \in (j + 1)..k : cmds[m].kind # "context"

C9_EveryUpdateableOnceInOrder ==
    /\ updateables = [i \in 1..Len(contexts) |-> i]
    /\ last.op = "frame"
       => /\ UpdateCalls = [i \in 1..Len(updateables) |->
                               Cmd(updateables[i], "context", 0, "_update",
                                   last.num)]
          /\ \A k \in 1..Len(cmds) :
                /\ \E j \in 1..k : cmds[j].kind = "context"
                /\ cmds[k].ctx = cmds[CallBefore(k)].ctx

C9_Witness ==
    /\ last.op = "frame" /\ last.num > 0
    /\ Len(updateables) = 2
    /\ Before(1).state = "playing" /\ Before(2).state = "playing"
    /\ Before(1).currentTime # Before(2).currentTime
    /\ contexts[1].currentTime = Before(1).currentTime + last.num
    /\ contexts[2].currentTime = Before(2).currentTime + last.num
    /\ Len(cmds) = 4

(* C10: the dt handed to the updateables is (now - previous_now)/1000      *)
(* clamped to be non-negative: 0 on the first frame callback and never     *)
(* negative on a later one, whatever timestamps the host supplies.         *)
C10_DtClamped ==
    last.op = "frame"
    => LET now == previousTime[1]
           raw == IF last.prevTime = Undefined THEN 0
                  ELSE ((now - last.prevTime[1]) * FixedPoint) \div MsPerSecond
       IN  /\ last.num = IF raw < 0 THEN 0 ELSE raw
           /\ \A k \in 1..Len(cmds) :
                 cmds[k].kind = "context" => cmds[k].arg >= 0

-----------------------------------------------------------------------------
(* The calls a tick of context c made on its nodes, in order *)

NodeCalls(c) == SelectSeq(cmds, LAMBDA e : e.ctx = c /\ e.kind # "context")

Renders(c) == SelectSeq(NodeCalls(c), LAMBDA e : e.cmd = "_render")

Active == {"playing", "stalled", "paused"}

(* C12: a tick that starts in state playing, stalled or paused runs one    *)
(* render pass after all its source commands: the destination node renders *)
(* first, once, then every effect node once, in creation order.            *)
C12_OneRenderPass ==
    \A c \in 1..Len(contexts) :
        (Ticked(c) /\ Before(c).state \in Active)
        => LET calls == NodeCalls(c)
               n     == After(c).processingNodes
           IN  /\ After(c).processingNodes = Before(c).processingNodes
               /\ Renders(c) =
                     <<Cmd(c, "destination", 0, "_render", 0)>>
                     \o [k \in 1..n |-> Cmd(c, "processing", k, "_render", 0)]
               /\ \A j, k \in 1..Len(calls) :
                     (calls[j].kind = "source" /\ calls[k].cmd = "_render")
                     => j < k

C12_Witness ==
    /\ Ticked(1) /\ Before(1).state = "stalled"
    /\ contexts[1].processingNodes = 2
    /\ Len(contexts[1].sourceNodes) = 2
    /\ Len(Renders(1)) = 3
    /\ Len(NodeCalls(1)) > 5

(* C13, as stated: a tick that starts in state ended or broken leaves the  *)
(* state and currentTime as they were and still runs the render pass.      *)
C13_EndedTickRenders ==
    \A c \in 1..Len(contexts) :
        (Ticked(c) /\ Before(c).state \in {"ended", "broken"})
        => /\ After(c) = Before(c)
           /\ Renders(c) =
                 <<Cmd(c, "destination", 0, "_render", 0)>>
                 \o [k \in 1..After(c).processingNodes |->
                         Cmd(c, "processing", k, "_render", 0)]

(* C13, amended: a tick that starts in state ended or broken leaves the    *)
(* state and currentTime as they were and runs no render pass: it calls no *)
(* node at all.                                                            *)
C13_EndedTickDoesNothing ==
    \A c \in 1..Len(contexts) :
        (Ticked(c) /\ Before(c).state \in {"ended", "broken"})
        => /\ After(c) = Before(c)
           /\ NodeCalls(c) = <<>>

C13_Witness ==
    /\ Ticked(1) /\ last.num > 0 /\ Before(1).state = "ended"
    /\ contexts[1].processingNodes > 0
    /\ Len(contexts[1].sourceNodes) > 0
    /\ cmds = <<Cmd(1, "context", 0, "_update", last.num)>>

(* C15: in a tick that ends in state stalled no source receives a play     *)
(* command, and a source that is not ready receives no pause, play or seek *)
(* command, only the time push.                                            *)
C15_StalledTick ==
    \A c \in 1..Len(contexts) :
        (Ticked(c) /\ After(c).state = "stalled")
        => \A i \in Sources(After(c)) :
              /\ Count(c, i, "_play") = 0
              /\ ~After(c).sourceNodes[i].ready
                 => /\ Count(c, i, "_pause") = 0
                    /\ Count(c, i, "_seek") = 0
                    /\ Count(c, i, "_update") = 1

C15_Witness ==
    /\ Ticked(1) /\ Before(1).state = "playing"
    /\ contexts[1].state = "stalled"
    /\ Len(contexts[1].sourceNodes) = 2
    /\ ~contexts[1].sourceNodes[1].ready /\ contexts[1].sourceNodes[2].ready
    /\ Count(1, 1, "_update") = 1 /\ Count(1, 1, "_pause") = 0
    /\ Count(1, 2, "_pause") = 1

(* C16: a tick sends no seek command, every seek command comes from        *)
(* setting currentTime, and a tick pushes the time to every source exactly *)
(* once, with the value of currentTime after the advance, ahead of that    *)
(* source's play or pause command.                                         *)
PushThenCommand(c, i) ==
    LET calls == SelectSeq(NodeCalls(c),
                           LAMBDA e : e.kind = "source" /\ e.idx = i)
    IN  /\ calls # <<>>
        /\ calls[1] = Cmd(c, "source", i, "_update", contexts[c].currentTime)
        /\ \A k \in 2..Len(calls) : calls[k].cmd \in {"_play", "_pause"}

NoSeekOutsideSetter ==
    \A k \in 1..Len(cmds) : cmds[k].cmd = "_seek" => last.op = "seek"

(* C16, as stated: in every tick *)
C16_PushInEveryTick ==
    /\ NoSeekOutsideSetter
    /\ \A c \in 1..Len(contexts) :
          Ticked(c) => \A i \in Sources(After(c)) : PushThenCommand(c, i)

(* C16, amended: in every tick that starts in state playing, stalled or    *)
(* paused; a tick that starts in another state calls no source.            *)
C16_PushInActiveTick ==
    /\ NoSeekOutsideSetter
    /\ \A c \in 1..Len(contexts) :
          /\ (Ticked(c) /\ Before(c).state \in Active)
             => \A i \in Sources(After(c)) : PushThenCommand(c, i)
          /\ (Ticked(c) /\ Before(c).state \notin Active)
             => NodeCalls(c) = <<>>

C16_Witness ==
    /\ Ticked(1) /\ last.num > 0 /\ Before(1).state = "playing"
    /\ contexts[1].state = "playing"
    /\ contexts[1].currentTime # Before(1).currentTime
    /\ Len(contexts[1].sourceNodes) = 2
    /\ PushThenCommand(1, 2)
    /\ Count(1, 2, "_play") = 1

(* C18: a step other than setting currentTime, with dt >= 0 when it is a   *)
(* tick, never decreases currentTime, and changes it only when it is a     *)
(* tick whose state after reconciliation is playing; a tick that ends in   *)
(* stalled or paused, or starts in ended, leaves currentTime as it was.    *)
C18_TimeMonotone ==
    \A c \in 1..Len(contexts) :
        (/\ c \in 1..Len(last.pre) /\ last.op # "seek"
         /\ last.op = "frame" => last.num >= 0)
        => LET t0 == Before(c).currentTime
               t1 == After(c).currentTime
           IN  /\ t0 = NaN => t1 = NaN
               /\ t0 # NaN => (t1 # NaN /\ t1 >= t0)
               /\ t1 # t0
                  => /\ last.op = "frame"
                     /\ Before(c).state \in {"playing", "stalled"}
                     /\ AllReady(Before(c))
               /\ (/\ last.op = "frame"
                   /\ \/ After(c).state \in {"stalled", "paused"}
                      \/ Before(c).state = "ended")
                  => t1 = t0

C18_Witness ==
    /\ Ticked(1) /\ last.num > 0
    /\ Before(1).state = "stalled" /\ contexts[1].state = "playing"
    /\ contexts[1].currentTime = Before(1).currentTime + last.num
    /\ Before(1).currentTime > 0

(* C20: a tick that starts in state ended changes neither the state nor    *)
(* currentTime and calls no source, also when currentTime is below the     *)
(* duration again; from ended only play and pause change the state; the    *)
(* tick that enters ended pushes the time to every source and sends        *)
(* neither play nor pause.                                                 *)
C20_EndedAbsorbing ==
    \A c \in 1..Len(contexts) :
        /\ (Ticked(c) /\ Before(c).state = "ended")
           => /\ After(c).state = "ended"
              /\ After(c).currentTime = Before(c).currentTime
              /\ \A k \in 1..Len(cmds) :
                    cmds[k].ctx = c => cmds[k].kind # "source"
        /\ (/\ c \in 1..Len(last.pre) /\ Before(c).state = "ended"
            /\ After(c).state # "ended")
           => last.op \in {"play", "pause"} /\ last.ctx = c
        /\ (Ticked(c) /\ Before(c).state # "ended" /\ After(c).state = "ended")
           => \A i \in Sources(After(c)) :
                 /\ Count(c, i, "_update") = 1
                 /\ Count(c, i, "_play") = 0
                 /\ Count(c, i, "_pause") = 0

C20_Witness ==
    /\ Ticked(1) /\ last.num > 0 /\ Before(1).state = "ended"
    /\ Len(contexts[1].sourceNodes) = 2
    /\ AllReady(contexts[1])
    /\ Before(1).currentTime # NaN
    /\ Before(1).currentTime < duration(Before(1))
    /\ contexts[1].state = "ended"

-----------------------------------------------------------------------------
(* C17: reconciliation keeps no memory.  A tick that starts in playing or  *)
(* stalled does exactly what it would have done from the other of the two  *)
(* states, and ends stalled exactly when some source is not ready.         *)
OtherOf(st) == IF st = "playing" THEN "stalled" ELSE "playing"

C17_Stateless ==
    \A c \in 1..Len(contexts) :
        (Ticked(c) /\ Before(c).state \in {"playing", "stalled"})
        => LET alt == ctxUpdate(c, [Before(c) EXCEPT !.state = OtherOf(@)],
                                last.num)
           IN  /\ alt.ctx = After(c)
               /\ alt.out = NodeCalls(c)
               /\ After(c).state = "stalled" <=> SomeNotReady(Before(c))

(* C17, as stated: a tick that starts in stalled with every source ready   *)
(* ends in playing, with currentTime advanced by dt and one play command   *)
(* sent to every source.                                                   *)
C17_ReadyAgainPlays ==
    /\ C17_Stateless
    /\ \A c \in 1..Len(contexts) :
          (Ticked(c) /\ Before(c).state = "stalled" /\ AllReady(Before(c)))
          => /\ After(c).state = "playing"
             /\ After(c).currentTime = NumAdd(Before(c).currentTime, last.num)
             /\ \A i \in Sources(After(c)) : Count(c, i, "_play") = 1

(* C17, amended: such a tick advances currentTime by dt and ends in        *)
(* playing with one play command sent to every source, unless the advanced *)
(* currentTime is strictly greater than the duration: then it ends in      *)
(* ended and sends no play command.  Either way the tick leaves stalled, so *)
(* the state does not stay stalled over a tick once all sources are ready. *)
C17_ReadyAgain ==
    /\ C17_Stateless
    /\ \A c \in 1..Len(contexts) :
          (Ticked(c) /\ Before(c).state = "stalled" /\ AllReady(Before(c)))
          => LET t1 == After(c).currentTime
             IN  /\ t1 = NumAdd(Before(c).currentTime, last.num)
                 /\ IF t1 # NaN /\ t1 > duration(After(c))
                    THEN /\ After(c).state = "ended"
                         /\ \A i \in Sources(After(c)) :
                               Count(c, i, "_play") = 0
                    ELSE /\ After(c).state = "playing"
                         /\ \A i \in Sources(After(c)) :
                               Count(c, i, "_play") = 1

C17_Witness ==
    /\ Ticked(1) /\ last.num > 0
    /\ Before(1).state = "stalled" /\ AllReady(Before(1))
    /\ Len(contexts[1].sourceNodes) = 2
    /\ contexts[1].state = "playing"
    /\ Count(1, 1, "_play") = 1 /\ Count(1, 2, "_play") = 1

(* C19: after a tick that leaves the state playing, currentTime is at most *)
(* the duration; a state that is playing with currentTime above the        *)
(* duration comes only from play, from setting currentTime or from a       *)
(* change of the sources, and the next tick with all sources ready turns   *)
(* it into ended.                                                          *)
Beyond(ctx) == ctx.state = "playing" /\ NumGt(ctx.currentTime, duration(ctx))

C19_PlayingWithinDuration ==
    \A c \in 1..Len(contexts) :
        /\ (Ticked(c) /\ Before(c).state \in Active
            /\ After(c).state = "playing")
           => /\ After(c).currentTime # NaN
              /\ After(c).currentTime <= duration(After(c))
        /\ (c \in 1..Len(last.pre) /\ Beyond(After(c)) /\ ~Beyond(Before(c)))
           => last.op \in {"play", "seek", "createVideoSourceNode"}
        /\ (Ticked(c) /\ Beyond(Before(c)) /\ AllReady(Before(c)))
           => After(c).state = "ended"

-----------------------------------------------------------------------------
(* C11: when the update of one updateable raises an error during a frame,  *)
(* the next frame callback is still scheduled and the updateables          *)
(* registered after the failing one are still updated in that frame.       *)
C11_FaultIsolated ==
    last.op = "frameThrows"
    => /\ rafPending
       /\ \A j \in 1..Len(updateables) :
             \E k \in 1..Len(cmds) :
                 cmds[k] = Cmd(updateables[j], "context", 0, "_update",
                               last.num)

(* C14: once the render graph is structurally broken the next tick leaves  *)
(* the playback state broken, and a broken state stays broken over every   *)
(* tick, play, pause and seek while the graph is not repaired.             *)
C14_BrokenGraphSticky ==
    \A c \in 1..Len(contexts) :
        /\ (Ticked(c) /\ Before(c).renderGraph.broken)
           => After(c).state = "broken"
        /\ (/\ c \in 1..Len(last.pre) /\ Before(c).state = "broken"
            /\ After(c).renderGraph.broken)
           => After(c).state = "broken"

====
